---------------------------- MODULE Spec2Model ----------------------------
(***************************************************************************)
(* Reference search of ra_ide (crates/ra_ide/src/references.rs).           *)
(*                                                                         *)
(* A snapshot is a small set of parsed files.  A query (find_all_refs) is  *)
(* run step by step against the snapshot: the struct-literal disambiguator *)
(* and binder lookup, find_name, the usage search with its kind filter,    *)
(* the navigation target with decl_access, and finally the flattening of   *)
(* the returned ReferenceSearchResult by into_iter.                        *)
(***************************************************************************)
EXTENDS Integers, Sequences, FiniteSets, TLC

(***************************************************************************)
(* Bounds of the model.                                                    *)
(***************************************************************************)
\* number of files of a snapshot (FileId 1..NumFiles)
NumFiles == 2

(***************************************************************************)
(* Syntax trees.  A file is a sequence of tokens and a preorder list of    *)
(* nodes; a node spans the tokens from..to.                                *)
(***************************************************************************)
Tk(kind, len) == [kind |-> kind, len |-> len, sym |-> ""]

Id(sym, len) == [kind |-> "IDENT", len |-> len, sym |-> sym]

Nd(kind, from, to) == [kind |-> kind, from |-> from, to |-> to]

\* /*Foo rec*/
\* struct Foo {spam:*const Foo}
RecordStruct ==
  [toks |-> << Tk("COMMENT", 10), Tk("WHITESPACE", 1), Tk("STRUCT_KW", 6),
               Tk("WHITESPACE", 1), Id("Foo", 3), Tk("WHITESPACE", 1),
               Tk("L_CURLY", 1), Id("spam", 4), Tk("COLON", 1), Tk("STAR", 1),
               Tk("CONST_KW", 5), Tk("WHITESPACE", 1), Id("Foo", 3),
               Tk("R_CURLY", 1) >>,
   nodes |-> << Nd("SOURCE_FILE", 1, 14), Nd("STRUCT_DEF", 1, 14),
                Nd("NAME", 5, 5), Nd("RECORD_FIELD_DEF_LIST", 7, 14),
                Nd("RECORD_FIELD_DEF", 8, 13), Nd("NAME", 8, 8),
                Nd("POINTER_TYPE", 10, 13), Nd("PATH_TYPE", 13, 13),
                Nd("NAME_REF", 13, 13) >>]

\* struct Foo<T> {}
GenericStruct ==
  [toks |-> << Tk("STRUCT_KW", 6), Tk("WHITESPACE", 1), Id("Foo", 3),
               Tk("L_ANGLE", 1), Id("T", 1), Tk("R_ANGLE", 1),
               Tk("WHITESPACE", 1), Tk("L_CURLY", 1), Tk("R_CURLY", 1) >>,
   nodes |-> << Nd("SOURCE_FILE", 1, 9), Nd("STRUCT_DEF", 1, 9),
                Nd("NAME", 3, 3), Nd("TYPE_PARAM_LIST", 4, 6),
                Nd("TYPE_PARAM", 5, 5), Nd("NAME", 5, 5),
                Nd("RECORD_FIELD_DEF_LIST", 8, 9) >>]

\* struct Foo(u32);
TupleStruct ==
  [toks |-> << Tk("STRUCT_KW", 6), Tk("WHITESPACE", 1), Id("Foo", 3),
               Tk("L_PAREN", 1), Id("u32", 3), Tk("R_PAREN", 1),
               Tk("SEMI", 1) >>,
   nodes |-> << Nd("SOURCE_FILE", 1, 7), Nd("STRUCT_DEF", 1, 7),
                Nd("NAME", 3, 3), Nd("TUPLE_FIELD_DEF_LIST", 4, 6),
                Nd("TUPLE_FIELD_DEF", 5, 5), Nd("PATH_TYPE", 5, 5),
                Nd("NAME_REF", 5, 5) >>]

\* struct Foo<T>(T);
GenericTuple ==
  [toks |-> << Tk("STRUCT_KW", 6), Tk("WHITESPACE", 1), Id("Foo", 3),
               Tk("L_ANGLE", 1), Id("T", 1), Tk("R_ANGLE", 1),
               Tk("L_PAREN", 1), Id("T", 1), Tk("R_PAREN", 1),
               Tk("SEMI", 1) >>,
   nodes |-> << Nd("SOURCE_FILE", 1, 10), Nd("STRUCT_DEF", 1, 10),
                Nd("NAME", 3, 3), Nd("TYPE_PARAM_LIST", 4, 6),
                Nd("TYPE_PARAM", 5, 5), Nd("NAME", 5, 5),
                Nd("TUPLE_FIELD_DEF_LIST", 7, 9),
                Nd("TUPLE_FIELD_DEF", 8, 8), Nd("PATH_TYPE", 8, 8),
                Nd("NAME_REF", 8, 8) >>]

\* fn n(){let mut j:Foo;j=Foo{};}
LetUse ==
  [toks |-> << Tk("FN_KW", 2), Tk("WHITESPACE", 1), Id("n", 1),
               Tk("L_PAREN", 1), Tk("R_PAREN", 1), Tk("L_CURLY", 1),
               Tk("LET_KW", 3), Tk("WHITESPACE", 1), Tk("MUT_KW", 3),
               Tk("WHITESPACE", 1), Id("j", 1),
               Tk("COLON", 1), Id("Foo", 3), Tk("SEMI", 1),
               Id("j", 1), Tk("EQ", 1), Id("Foo", 3), Tk("L_CURLY", 1),
               Tk("R_CURLY", 1), Tk("SEMI", 1), Tk("R_CURLY", 1) >>,
   nodes |-> << Nd("SOURCE_FILE", 1, 21), Nd("FN_DEF", 1, 21),
                Nd("NAME", 3, 3), Nd("PARAM_LIST", 4, 5),
                Nd("BLOCK_EXPR", 6, 21),
                Nd("LET_STMT", 7, 14), Nd("BIND_PAT", 9, 11),
                Nd("NAME", 11, 11),
                Nd("PATH_TYPE", 13, 13), Nd("NAME_REF", 13, 13),
                Nd("EXPR_STMT", 15, 20), Nd("BIN_EXPR", 15, 19),
                Nd("PATH_EXPR", 15, 15), Nd("NAME_REF", 15, 15),
                Nd("RECORD_LIT", 17, 19), Nd("NAME_REF", 17, 17),
                Nd("RECORD_FIELD_LIST", 18, 19) >>]

\* fn m(){let mut f=Foo{spam:1};}
MutUse ==
  [toks |-> << Tk("FN_KW", 2), Tk("WHITESPACE", 1), Id("m", 1),
               Tk("L_PAREN", 1), Tk("R_PAREN", 1), Tk("L_CURLY", 1),
               Tk("LET_KW", 3), Tk("WHITESPACE", 1), Tk("MUT_KW", 3),
               Tk("WHITESPACE", 1), Id("f", 1), Tk("EQ", 1), Id("Foo", 3),
               Tk("L_CURLY", 1), Id("spam", 4), Tk("COLON", 1),
               Tk("INT_NUMBER", 1), Tk("R_CURLY", 1), Tk("SEMI", 1),
               Tk("R_CURLY", 1) >>,
   nodes |-> << Nd("SOURCE_FILE", 1, 20), Nd("FN_DEF", 1, 20),
                Nd("NAME", 3, 3), Nd("PARAM_LIST", 4, 5),
                Nd("BLOCK_EXPR", 6, 20),
                Nd("LET_STMT", 7, 19), Nd("BIND_PAT", 9, 11),
                Nd("NAME", 11, 11),
                Nd("RECORD_LIT", 13, 18), Nd("NAME_REF", 13, 13),
                Nd("RECORD_FIELD_LIST", 14, 18), Nd("RECORD_FIELD", 15, 17),
                Nd("NAME_REF", 15, 15), Nd("LITERAL", 17, 17) >>]

\* fn h(){let mut x=|p|{let y=p;y};}
Closure ==
  [toks |-> << Tk("FN_KW", 2), Tk("WHITESPACE", 1), Id("h", 1),
               Tk("L_PAREN", 1), Tk("R_PAREN", 1), Tk("L_CURLY", 1),
               Tk("LET_KW", 3), Tk("WHITESPACE", 1), Tk("MUT_KW", 3),
               Tk("WHITESPACE", 1), Id("x", 1), Tk("EQ", 1),
               Tk("PIPE", 1), Id("p", 1), Tk("PIPE", 1), Tk("L_CURLY", 1),
               Tk("LET_KW", 3), Tk("WHITESPACE", 1), Id("y", 1), Tk("EQ", 1),
               Id("p", 1), Tk("SEMI", 1), Id("y", 1), Tk("R_CURLY", 1),
               Tk("SEMI", 1), Tk("R_CURLY", 1) >>,
   nodes |-> << Nd("SOURCE_FILE", 1, 26), Nd("FN_DEF", 1, 26),
                Nd("NAME", 3, 3), Nd("PARAM_LIST", 4, 5),
                Nd("BLOCK_EXPR", 6, 26),
                Nd("LET_STMT", 7, 25), Nd("BIND_PAT", 9, 11),
                Nd("NAME", 11, 11),
                Nd("LAMBDA_EXPR", 13, 24), Nd("PARAM_LIST", 13, 15),
                Nd("PARAM", 14, 14), Nd("BIND_PAT", 14, 14),
                Nd("NAME", 14, 14),
                Nd("BLOCK_EXPR", 16, 24),
                Nd("LET_STMT", 17, 22), Nd("BIND_PAT", 19, 19),
                Nd("NAME", 19, 19), Nd("PATH_EXPR", 21, 21),
                Nd("NAME_REF", 21, 21),
                Nd("PATH_EXPR", 23, 23), Nd("NAME_REF", 23, 23) >>]

\* macro mac{}
MacroDef ==
  [toks |-> << Tk("IDENT", 5), Tk("WHITESPACE", 1), Id("mac", 3),
               Tk("L_CURLY", 1), Tk("R_CURLY", 1) >>,
   nodes |-> << Nd("SOURCE_FILE", 1, 5), Nd("MACRO_DEF", 1, 5),
                Nd("NAME", 3, 3), Nd("TOKEN_TREE", 4, 5) >>]

\* fn s(){Foo{spam:1};}
FieldUse ==
  [toks |-> << Tk("FN_KW", 2), Tk("WHITESPACE", 1), Id("s", 1),
               Tk("L_PAREN", 1), Tk("R_PAREN", 1), Tk("L_CURLY", 1),
               Id("Foo", 3), Tk("L_CURLY", 1), Id("spam", 4), Tk("COLON", 1),
               Tk("INT_NUMBER", 1), Tk("R_CURLY", 1), Tk("SEMI", 1),
               Tk("R_CURLY", 1) >>,
   nodes |-> << Nd("SOURCE_FILE", 1, 14), Nd("FN_DEF", 1, 14),
                Nd("NAME", 3, 3), Nd("PARAM_LIST", 4, 5),
                Nd("BLOCK_EXPR", 6, 14), Nd("EXPR_STMT", 7, 13),
                Nd("RECORD_LIT", 7, 12), Nd("NAME_REF", 7, 7),
                Nd("RECORD_FIELD_LIST", 8, 12), Nd("RECORD_FIELD", 9, 11),
                Nd("NAME_REF", 9, 9), Nd("LITERAL", 11, 11) >>]

\* The files a snapshot is made of.
Corpus ==
  { RecordStruct, GenericStruct, TupleStruct, GenericTuple, LetUse, MutUse,
    Closure, MacroDef, FieldUse }

Toks(f) == f.toks

Nodes(f) == f.nodes

FileIds == 1..NumFiles


(***************************************************************************)
(* Text positions (ra_syntax / rowan).                                     *)
(***************************************************************************)
\* The offset at which token i of file f starts.
RECURSIVE TokStart(_, _)
TokStart(f, i) == IF i <= 1 THEN 0 ELSE TokStart(f, i - 1) + Toks(f)[i - 1].len

TokEnd(f, i) == TokStart(f, i) + Toks(f)[i].len

FileLen(f) == TokStart(f, Len(Toks(f)) + 1)

Offsets(f) == 0..FileLen(f)

Range(s, e) == [start |-> s, end |-> e]

NoRange == Range(-1, -1)

RangeLen(r) == r.end - r.start

NodeRange(f, n) == Range(TokStart(f, Nodes(f)[n].from), TokEnd(f, Nodes(f)[n].to))

TokRange(f, i) == Range(TokStart(f, i), TokEnd(f, i))

SetMax(S) == CHOOSE x \in S : \A y \in S : y <= x

SetMin(S) == CHOOSE x \in S : \A y \in S : x <= y

\* The tokens of f from token i on (which starts at offset start) that
\* touch offset o.
RECURSIVE TokensAt(_, _, _, _)
TokensAt(f, i, start, o) ==
  IF i > Len(Toks(f)) THEN [tag |-> "None"]
  ELSE LET end == start + Toks(f)[i].len
       IN  IF o < end THEN [tag |-> "Single", tok |-> i]
           ELSE IF o = end
                THEN IF i = Len(Toks(f))
                     THEN [tag |-> "Single", tok |-> i]
                     ELSE [tag |-> "Between", left |-> i, right |-> i + 1]
                ELSE TokensAt(f, i + 1, end, o)

\* SyntaxNode::token_at_offset: asserts that the offset lies in the node's
\* range, then yields the one or two tokens touching the offset.
token_at_offset(f, o) ==
  IF o < 0 \/ o > FileLen(f) THEN [tag |-> "Panic"] ELSE TokensAt(f, 1, 0, o)

\* The innermost node of kind k among the ancestors of token i, 0 if none
\* (nodes are listed in preorder: of the nodes spanning a token the last
\* listed is the innermost).
TokenAncestor(f, i, k) ==
  LET up == { n \in DOMAIN Nodes(f) :
                /\ Nodes(f)[n].from <= i /\ i <= Nodes(f)[n].to
                /\ Nodes(f)[n].kind = k }
  IN  IF up = {} THEN 0 ELSE SetMax(up)

\* node.ancestors().find_map(k::cast): the node itself included.
NodeAncestor(f, n, k) ==
  LET up == { m \in DOMAIN Nodes(f) :
                /\ m <= n
                /\ Nodes(f)[m].from <= Nodes(f)[n].from
                /\ Nodes(f)[n].to <= Nodes(f)[m].to
                /\ Nodes(f)[m].kind = k }
  IN  IF up = {} THEN 0 ELSE SetMax(up)

\* The parent of node n, 0 for the root.
Parent(f, n) ==
  LET up == { m \in DOMAIN Nodes(f) :
                /\ m < n
                /\ Nodes(f)[m].from <= Nodes(f)[n].from
                /\ Nodes(f)[n].to <= Nodes(f)[m].to }
  IN  IF up = {} THEN 0 ELSE SetMax(up)

\* The first child of node n that has kind k, 0 if none.
ChildOfKind(f, n, k) ==
  LET cs == { c \in DOMAIN Nodes(f) : Nodes(f)[c].kind = k /\ Parent(f, c) = n }
  IN  IF cs = {} THEN 0 ELSE SetMin(cs)

\* algo::find_node_at_offset::<k>: ancestors_at_offset merges the ancestor
\* chains of the tokens touching the offset, shorter nodes first, and the
\* first node of kind k is taken.  Result: a node index, 0 for None, -1 when
\* token_at_offset panics.
find_node_at_offset(f, o, k) ==
  LET t == token_at_offset(f, o)
  IN  CASE t.tag = "Panic" -> -1
        [] t.tag = "None" -> 0
        [] t.tag = "Single" -> TokenAncestor(f, t.tok, k)
        [] t.tag = "Between" ->
             LET l == TokenAncestor(f, t.left, k)
                 r == TokenAncestor(f, t.right, k)
             IN  IF l = 0 THEN r
                 ELSE IF r = 0 THEN l
                 ELSE IF RangeLen(NodeRange(f, r)) < RangeLen(NodeRange(f, l))
                      THEN r ELSE l


(***************************************************************************)
(* The state: the snapshot and one query's locals.                         *)
(***************************************************************************)
VARIABLES
  files,         \* the snapshot: FileId -> parsed file
  pc,            \* where the query stands
  position,      \* FilePosition of the query
  search_scope,  \* Option<SearchScope> of the query
  lit_name,      \* what get_struct_def_name_for_struct_literal_search gave
  opt_name,      \* find_all_refs: opt_name (a NAME node, 0 for None)
  search_kind,   \* find_all_refs: search_kind
  range,         \* find_all_refs: range of the name that started the query
  def,           \* find_all_refs: def
  usages,        \* what def.find_usages returned
  references,    \* find_all_refs: references (the filtered usages)
  result,        \* Option<RangeInfo<ReferenceSearchResult>> returned
  flat,          \* the Vec built by into_iter
  calls,         \* the collaborator calls of the query, in order
  other,         \* a second caller's query against the same snapshot
  cancelled,     \* cancellation was signalled during the search call
  expected,      \* lines_match: the pattern
  actual,        \* lines_match: the line
  matched,       \* lines_match: "true" or "false", "unset" before the call
  er_input,      \* extract_ranges: the text it was called with
  er_tag,        \* extract_ranges: tag
  er_text,       \* extract_ranges: text, what is left to scan
  er_res,        \* extract_ranges: res
  er_stack,      \* extract_ranges: stack
  er_ranges,     \* extract_ranges: ranges
  er_pc          \* extract_ranges: where the call stands

vars ==
  << files, pc, position, search_scope, lit_name, opt_name, search_kind,
     range, def, usages, references, result, flat, calls, other, cancelled,
     expected, actual, matched,
     er_input, er_tag, er_text, er_res, er_stack, er_ranges, er_pc >>

\* The locals of extract_ranges.
er_vars == << er_input, er_tag, er_text, er_res, er_stack, er_ranges, er_pc >>

\* What a step of the first caller's query leaves alone.
aux == << other, cancelled, expected, actual, matched, er_vars >>

(***************************************************************************)
(* The semantic database (ra_ide_db, hir): classification, navigation      *)
(* targets and the usage search.                                           *)
(***************************************************************************)
NodeSym(f, n) == Toks(f)[Nodes(f)[n].from].sym

NoDef == [kind |-> "None", file |-> 0, node |-> 0]

Builtins == { "u32" }

\* The Definition variant a NAME node declares, by the node's parent.
NameKind(f, n) ==
  LET pk == IF Parent(f, n) = 0 THEN "" ELSE Nodes(f)[Parent(f, n)].kind
  IN  CASE pk = "STRUCT_DEF" -> "Struct"
        [] pk = "BIND_PAT" -> "Local"
        [] pk = "RECORD_FIELD_DEF" -> "Field"
        [] pk = "FN_DEF" -> "Function"
        [] pk = "TYPE_PARAM" -> "TypeParam"
        [] OTHER -> "None"

\* classify_name(sema, &name): None for a name the database cannot resolve.
classify_name(fid, n) ==
  IF NameKind(files[fid], n) = "None" THEN NoDef
  ELSE [kind |-> NameKind(files[fid], n), file |-> fid, node |-> n]

\* The declarations of symbol s in the snapshot.
Declarations(s) ==
  UNION { { classify_name(g, m) :
              m \in { k \in DOMAIN Nodes(files[g]) :
                        /\ Nodes(files[g])[k].kind = "NAME"
                        /\ NodeSym(files[g], k) = s
                        /\ NameKind(files[g], k) # "None" } } :
          g \in FileIds }

\* classify_name_ref(sema, &name_ref): the definition the reference resolves
\* to; None for a reference to an undefined symbol.
classify_name_ref(fid, n) ==
  LET s == NodeSym(files[fid], n)
      ds == Declarations(s)
  IN  IF s \in Builtins THEN [kind |-> "BuiltinType", file |-> 0, node |-> 0]
      ELSE IF ds = {} THEN NoDef
      ELSE CHOOSE d \in ds :
             \A e \in ds : d.file < e.file \/ (d.file = e.file /\ d.node <= e.node)

NoNav == [file_id |-> 0, full_range |-> NoRange, focus_range |-> NoRange]

\* def.try_to_nav(db): None for a definition without a location (a builtin).
try_to_nav(d) ==
  IF d.file = 0 THEN NoNav
  ELSE LET f == files[d.file]
       IN  IF d.kind = "Local"
           THEN [file_id |-> d.file, full_range |-> NodeRange(f, d.node),
                 focus_range |-> NoRange]
           ELSE [file_id |-> d.file,
                 full_range |-> NodeRange(f, Parent(f, d.node)),
                 focus_range |-> NodeRange(f, d.node)]

\* NavigationTarget::range: the focus range if there is one.
NavRange(nav) ==
  IF nav.focus_range # NoRange THEN nav.focus_range ELSE nav.full_range

NoScope == [some |-> FALSE, files |-> {}]

SingleFile(fid) == [some |-> TRUE, files |-> { fid }]

\* The access the search engine gives a usage: Write for the left side of
\* an assignment, Read otherwise; none unless the definition is a local or
\* a field.
UsageAccess(d, f, n) ==
  IF d.kind \notin { "Local", "Field" } THEN "None"
  ELSE LET pe == Parent(f, n)
           be == IF pe = 0 THEN 0 ELSE Parent(f, pe)
       IN  IF /\ be # 0
              /\ Nodes(f)[pe].kind = "PATH_EXPR"
              /\ Nodes(f)[be].kind = "BIN_EXPR"
              /\ Nodes(f)[be].from = Nodes(f)[n].from
           THEN "Write" ELSE "Read"

\* The kind the search engine gives a usage.
UsageKind(f, n) ==
  IF Parent(f, n) # 0 /\ Nodes(f)[Parent(f, n)].kind = "RECORD_LIT"
  THEN "StructLiteral" ELSE "Other"

\* The usages of d among the nodes k.. of file fid, in text order.
RECURSIVE UsagesInFile(_, _, _)
UsagesInFile(d, fid, k) ==
  LET f == files[fid]
  IN  IF k > Len(Nodes(f)) THEN << >>
      ELSE IF Nodes(f)[k].kind = "NAME_REF" /\ classify_name_ref(fid, k) = d
           THEN << [file_range |-> [file_id |-> fid, range |-> NodeRange(f, k)],
                    kind |-> UsageKind(f, k),
                    access |-> UsageAccess(d, f, k)] >>
                \o UsagesInFile(d, fid, k + 1)
           ELSE UsagesInFile(d, fid, k + 1)

\* def.find_usages(db, search_scope): the files of the scope are searched
\* one after the other (all files when there is no scope).
RECURSIVE UsagesFrom(_, _, _)
UsagesFrom(d, scope, fid) ==
  IF fid > NumFiles THEN << >>
  ELSE IF scope.some /\ fid \notin scope.files
       THEN UsagesFrom(d, scope, fid + 1)
       ELSE UsagesInFile(d, fid, 1) \o UsagesFrom(d, scope, fid + 1)

find_usages(d, scope) == UsagesFrom(d, scope, 1)

\* Semantics::find_node_at_offset_with_descend: the files of the snapshot
\* hold no macro call, so there is no expansion to descend into.
find_node_at_offset_with_descend(f, o, k) == find_node_at_offset(f, o, k)


(***************************************************************************)
(* references.rs                                                           *)
(***************************************************************************)
\* len without the declaration.
len_without_declaration(res) == Len(res.references)

\* ReferenceSearchResult::len
len(res) == Len(res.references) + 1

\* into_iter with the declaration pushed after the references.
into_iter_declaration_last(res) ==
  res.references
    \o << [file_range |-> [file_id |-> res.declaration.nav.file_id,
                           range |-> NavRange(res.declaration.nav)],
           kind |-> res.declaration.kind,
           access |-> res.declaration.access] >>

\* impl IntoIterator for ReferenceSearchResult: the declaration as a
\* Reference, then the references.
into_iter(res) ==
  LET v0 == << >>
      v1 == Append(v0, [file_range |-> [file_id |-> res.declaration.nav.file_id,
                                        range |-> NavRange(res.declaration.nav)],
                        kind |-> res.declaration.kind,
                        access |-> res.declaration.access])
  IN  v1 \o res.references

\* The disambiguator with the test for `(` forgotten.
struct_literal_search_curly_only(f, offset) ==
  LET t == token_at_offset(f, offset)
  IN  IF t.tag # "Between" THEN 0
      ELSE IF Toks(f)[t.right].kind # "L_CURLY" THEN 0
      ELSE LET at == TokStart(f, t.left)
               name == find_node_at_offset_with_descend(f, at, "NAME")
           IN  IF name # 0
               THEN LET l == NodeAncestor(f, name, "STRUCT_DEF")
                    IN  IF l = 0 THEN 0 ELSE ChildOfKind(f, l, "NAME")
               ELSE IF find_node_at_offset_with_descend(f, at, "TYPE_PARAM_LIST") # 0
               THEN LET l == TokenAncestor(f, t.left, "STRUCT_DEF")
                    IN  IF l = 0 THEN 0 ELSE ChildOfKind(f, l, "NAME")
               ELSE 0

\* get_struct_def_name_for_struct_literal_search: the NAME node of the
\* struct whose literals are searched, 0 for None.
get_struct_def_name_for_struct_literal_search(f, offset) ==
  LET t == token_at_offset(f, offset)
  IN  IF t.tag # "Between" THEN 0
      ELSE IF Toks(f)[t.right].kind # "L_CURLY" /\ Toks(f)[t.right].kind # "L_PAREN"
      THEN 0
      ELSE LET at == TokStart(f, t.left)
               name == find_node_at_offset_with_descend(f, at, "NAME")
           IN  IF name # 0
               THEN LET l == NodeAncestor(f, name, "STRUCT_DEF")
                    IN  IF l = 0 THEN 0 ELSE ChildOfKind(f, l, "NAME")
               ELSE IF find_node_at_offset_with_descend(f, at, "TYPE_PARAM_LIST") # 0
               THEN LET l == TokenAncestor(f, t.left, "STRUCT_DEF")
                    IN  IF l = 0 THEN 0 ELSE ChildOfKind(f, l, "NAME")
               ELSE 0

NoName == [some |-> FALSE, range |-> NoRange, info |-> NoDef]

\* find_name returning the declaration's range instead of the range of the
\* node the query started from.
find_name_declaration_range(pos, name) ==
  LET f == files[pos.file_id]
      d == IF name # 0 THEN classify_name(pos.file_id, name)
           ELSE LET name_ref == find_node_at_offset_with_descend(f, pos.offset, "NAME_REF")
                IN  IF name_ref = 0 THEN NoDef
                    ELSE classify_name_ref(pos.file_id, name_ref)
  IN  IF d = NoDef THEN NoName
      ELSE [some |-> TRUE,
            range |-> IF try_to_nav(d) = NoNav THEN NoRange
                      ELSE NavRange(try_to_nav(d)),
            info |-> d]

\* find_name going on with a node that did not classify.
find_name_unchecked(pos, name) ==
  LET f == files[pos.file_id]
  IN  IF name # 0
      THEN [some |-> TRUE, range |-> NodeRange(f, name),
            info |-> classify_name(pos.file_id, name)]
      ELSE LET name_ref == find_node_at_offset_with_descend(f, pos.offset, "NAME_REF")
           IN  IF name_ref = 0 THEN NoName
               ELSE [some |-> TRUE, range |-> NodeRange(f, name_ref),
                     info |-> classify_name_ref(pos.file_id, name_ref)]

\* find_name: the definition of the given binder, or else of the usage at
\* the cursor, with the range of the node it came from.
find_name(pos, name) ==
  LET f == files[pos.file_id]
  IN  IF name # 0
      THEN LET d == classify_name(pos.file_id, name)
           IN  IF d = NoDef THEN NoName
               ELSE [some |-> TRUE, range |-> NodeRange(f, name), info |-> d]
      ELSE LET name_ref == find_node_at_offset_with_descend(f, pos.offset, "NAME_REF")
           IN  IF name_ref = 0 THEN NoName
               ELSE LET d == classify_name_ref(pos.file_id, name_ref)
                    IN  IF d = NoDef THEN NoName
                        ELSE [some |-> TRUE, range |-> NodeRange(f, name_ref),
                              info |-> d]

\* find_name going on to the usage lookup when the binder does not classify.
find_name_calls_with_fallback(pos, name) ==
  IF name # 0
  THEN IF classify_name(pos.file_id, name) # NoDef THEN << "classify_name" >>
       ELSE IF find_node_at_offset_with_descend(files[pos.file_id], pos.offset,
                                                "NAME_REF") = 0
            THEN << "classify_name", "find_name_ref" >>
            ELSE << "classify_name", "find_name_ref", "classify_name_ref" >>
  ELSE IF find_node_at_offset_with_descend(files[pos.file_id], pos.offset, "NAME_REF") = 0
       THEN << "find_name_ref" >>
       ELSE << "find_name_ref", "classify_name_ref" >>

\* The collaborators find_name calls, in order.
find_name_calls(pos, name) ==
  IF name # 0 THEN << "classify_name" >>
  ELSE IF find_node_at_offset_with_descend(files[pos.file_id], pos.offset, "NAME_REF") = 0
       THEN << "find_name_ref" >>
       ELSE << "find_name_ref", "classify_name_ref" >>

ExprKinds ==
  { "RECORD_LIT", "LAMBDA_EXPR", "PATH_EXPR", "BIN_EXPR", "BLOCK_EXPR", "LITERAL" }

PatKinds == { "BIND_PAT", "TUPLE_PAT", "PLACEHOLDER_PAT" }

\* The first child of node n whose kind is in ks, 0 if none.
ChildIn(f, n, ks) ==
  LET cs == { c \in DOMAIN Nodes(f) : Nodes(f)[c].kind \in ks /\ Parent(f, c) = n }
  IN  IF cs = {} THEN 0 ELSE SetMin(cs)

\* Whether node n has a token of kind k of its own.
HasToken(f, n, k) ==
  \E i \in Nodes(f)[n].from .. Nodes(f)[n].to :
    /\ Toks(f)[i].kind = k
    /\ \A m \in DOMAIN Nodes(f) :
         (Nodes(f)[m].from <= i /\ i <= Nodes(f)[m].to) => m <= n

\* decl_access with the test for an initializer forgotten.
decl_access_any_mut_let(d, f, r) ==
  IF d.kind \notin { "Local", "Field" } THEN "None"
  ELSE LET stmt == find_node_at_offset(f, r.start, "LET_STMT")
       IN  IF stmt = -1 THEN "Panic"
           ELSE IF stmt = 0 THEN "None"
           ELSE LET pat == ChildIn(f, stmt, PatKinds)
                IN  IF pat = 0 THEN "None"
                    ELSE IF Nodes(f)[pat].kind = "BIND_PAT" /\ HasToken(f, pat, "MUT_KW")
                    THEN "Write"
                    ELSE "None"

\* decl_access(def, syntax, range): "Write", "None", or "Panic" when the
\* offset lies outside the syntax tree.
decl_access(d, f, r) ==
  IF d.kind \notin { "Local", "Field" } THEN "None"
  ELSE LET stmt == find_node_at_offset(f, r.start, "LET_STMT")
       IN  IF stmt = -1 THEN "Panic"
           ELSE IF stmt = 0 THEN "None"
           ELSE IF ChildIn(f, stmt, ExprKinds) # 0
           THEN LET pat == ChildIn(f, stmt, PatKinds)
                IN  IF pat = 0 THEN "None"
                    ELSE IF Nodes(f)[pat].kind = "BIND_PAT" /\ HasToken(f, pat, "MUT_KW")
                    THEN "Write"
                    ELSE "None"
           ELSE "None"

\* The filter without its accept-all case.
keep_same_kind(kind, r) == kind = r.kind

\* The filter with the accept-all case on the reference's kind.
keep_other_references(kind, r) == r.kind = "Other" \/ kind = r.kind

\* find_all_refs, the filter's closure: whether reference r is kept.
keep(kind, r) == kind = "Other" \/ kind = r.kind

RECURSIVE filter(_, _)
filter(kind, rs) ==
  IF rs = << >> THEN << >>
  ELSE IF keep(kind, Head(rs))
       THEN << Head(rs) >> \o filter(kind, Tail(rs))
       ELSE filter(kind, Tail(rs))

\* The scope read from a slot the other caller's query overwrites.
usage_scope_shared(scope) ==
  IF other.pc = "idle" THEN scope ELSE other.search_scope

\* The scope dropped on the way to the search.
usage_scope_dropped(scope) == NoScope

\* find_all_refs: the scope handed to def.find_usages.
usage_scope(scope) == scope

\* The declaration given the requested kind.
declaration_kind_requested(kind) == kind

\* find_all_refs: the kind of the Declaration.
declaration_kind(kind) == "Other"

\* find_all_refs, lines 97-106: the binder the query starts from, given what
\* the disambiguator returned.
resolve_name(f, offset, name) ==
  IF name # 0 THEN name
  ELSE find_node_at_offset_with_descend(f, offset, "NAME")

\* The disambiguator's answer honoured only while no other caller's query is
\* under way.
resolve_kind_once(name) ==
  IF name # 0 /\ other.pc = "idle" THEN "StructLiteral" ELSE "Other"

\* The requested kind never set to StructLiteral.
resolve_kind_always_other(name) == "Other"

\* find_all_refs, lines 97-106: the requested kind.
resolve_kind(name) == IF name # 0 THEN "StructLiteral" ELSE "Other"

\* find_all_refs, lines 97-106: the lookups made.
resolve_calls(name) ==
  IF name # 0 THEN << "struct_literal_search" >>
  ELSE << "struct_literal_search", "find_name_at_cursor" >>

NoResult == [some |-> FALSE]

\* find_all_refs, lines 118-124: Some(RangeInfo::new(range,
\* ReferenceSearchResult { declaration, references })).
search_result(r, nav, kind, access, refs) ==
  [some |-> TRUE,
   range |-> r,
   info |-> [declaration |-> [nav |-> nav, kind |-> kind, access |-> access],
             references |-> refs]]

\* find_all_refs as a whole: how the call ends ("returned" or "panicked")
\* and what it returns.
find_all_refs(pos, scope) ==
  LET f == files[pos.file_id]
      lit == get_struct_def_name_for_struct_literal_search(f, pos.offset)
      name == resolve_name(f, pos.offset, lit)
      kind == resolve_kind(lit)
      found == find_name(pos, name)
  IN  IF ~found.some THEN [pc |-> "returned", result |-> NoResult]
      ELSE LET refs == filter(kind, find_usages(found.info, usage_scope(scope)))
               nav == try_to_nav(found.info)
           IN  IF nav = NoNav THEN [pc |-> "returned", result |-> NoResult]
               ELSE LET access == decl_access(found.info, f, NavRange(nav))
                    IN  IF access = "Panic"
                        THEN [pc |-> "panicked", result |-> NoResult]
                        ELSE [pc |-> "returned",
                              result |-> search_result(found.range, nav,
                                                       declaration_kind(kind),
                                                       access, refs)]

(***************************************************************************)
(* The query, step by step.                                                *)
(***************************************************************************)
Scopes == { NoScope } \cup { SingleFile(g) : g \in FileIds }

\* No symbol is declared twice in a snapshot, and no file is there twice.
DeclaredSyms(f) ==
  { NodeSym(f, n) : n \in { k \in DOMAIN Nodes(f) :
                              Nodes(f)[k].kind = "NAME" /\ NameKind(f, k) # "None" } }

SnapshotOK(fs) ==
  \A g, h \in FileIds :
    g # h => fs[g] # fs[h] /\ DeclaredSyms(fs[g]) \cap DeclaredSyms(fs[h]) = {}

\* The second caller before its query.
OtherIdle ==
  [pc |-> "idle", position |-> [file_id |-> 1, offset |-> 0],
   search_scope |-> NoScope, opt_name |-> 0, search_kind |-> "Other",
   range |-> NoRange, def |-> NoDef, references |-> << >>, result |-> NoResult]

\* extract_ranges is not running.
ErIdle ==
  /\ er_input = << >>
  /\ er_tag = << >>
  /\ er_text = << >>
  /\ er_res = << >>
  /\ er_stack = << >>
  /\ er_ranges = << >>
  /\ er_pc = "idle"

Idle ==
  /\ lit_name = 0
  /\ opt_name = 0
  /\ search_kind = "Other"
  /\ range = NoRange
  /\ def = NoDef
  /\ usages = << >>
  /\ references = << >>
  /\ result = NoResult
  /\ flat = << >>

Init ==
  /\ files \in { fs \in [FileIds -> Corpus] : SnapshotOK(fs) }
  /\ pc = "idle"
  /\ position = [file_id |-> 1, offset |-> 0]
  /\ search_scope = NoScope
  /\ calls = << >>
  /\ Idle
  /\ other = OtherIdle
  /\ cancelled = FALSE
  /\ expected = << >>
  /\ actual = << >>
  /\ matched = "unset"
  /\ ErIdle

\* find_all_refs, lines 93-106: the disambiguator, else the binder at the
\* cursor.
Resolve(fid, offset, scope) ==
  /\ pc = "idle"
  /\ LET pos == [file_id |-> fid, offset |-> offset]
         name == get_struct_def_name_for_struct_literal_search(files[fid], offset)
     IN  /\ position' = pos
         /\ search_scope' = scope
         /\ lit_name' = name
         /\ opt_name' = resolve_name(files[fid], offset, name)
         /\ search_kind' = resolve_kind(name)
         /\ calls' = resolve_calls(name)
  /\ pc' = "find_name"
  /\ UNCHANGED << aux, files, range, def, usages, references, result, flat >>

\* find_all_refs, line 108.
FindName ==
  /\ pc = "find_name"
  /\ LET r == find_name(position, opt_name)
     IN  /\ calls' = calls \o find_name_calls(position, opt_name)
         /\ IF r.some
            THEN /\ range' = r.range
                 /\ def' = r.info
                 /\ pc' = "find_usages"
            ELSE /\ UNCHANGED << range, def >>
                 /\ pc' = "returned"
  /\ UNCHANGED << aux, files, position, search_scope, lit_name, opt_name,
                  search_kind, usages, references, result, flat >>

\* find_all_refs, lines 110-114.
FindUsages ==
  /\ pc = "find_usages"
  /\ usages' = find_usages(def, usage_scope(search_scope))
  /\ references' = filter(search_kind, usages')
  /\ calls' = Append(calls, "find_usages")
  /\ pc' = "declaration"
  /\ UNCHANGED << aux, files, position, search_scope, lit_name, opt_name,
                  search_kind, range, def, result, flat >>

\* find_all_refs, lines 116-124.
Declare ==
  /\ pc = "declaration"
  /\ LET nav == try_to_nav(def)
     IN  IF nav = NoNav
         THEN /\ calls' = Append(calls, "try_to_nav")
              /\ pc' = "returned"
              /\ UNCHANGED result
         ELSE LET decl_range == NavRange(nav)
                  access == decl_access(def, files[position.file_id], decl_range)
              IN  /\ calls' = calls \o << "try_to_nav", "try_to_nav", "decl_access" >>
                  /\ IF access = "Panic"
                     THEN /\ pc' = "panicked"
                          /\ UNCHANGED result
                     ELSE /\ pc' = "returned"
                          /\ result' = search_result(range, nav,
                                                      declaration_kind(search_kind),
                                                      access, references)
  /\ UNCHANGED << aux, files, position, search_scope, lit_name, opt_name,
                  search_kind, range, def, usages, references, flat >>

\* The caller flattens the result it got.
IntoIter ==
  /\ pc = "returned"
  /\ result.some
  /\ flat' = into_iter(result.info)
  /\ pc' = "flattened"
  /\ UNCHANGED << aux, files, position, search_scope, lit_name, opt_name,
                  search_kind, range, def, usages, references, result, calls >>

\* The query is over (returned, flattened or aborted): the next one starts
\* from scratch, nothing is kept between queries.
Finish ==
  /\ pc \in { "returned", "flattened", "panicked" }
  /\ pc' = "idle"
  /\ position' = [file_id |-> 1, offset |-> 0]
  /\ search_scope' = NoScope
  /\ calls' = << >>
  /\ lit_name' = 0
  /\ opt_name' = 0
  /\ search_kind' = "Other"
  /\ range' = NoRange
  /\ def' = NoDef
  /\ usages' = << >>
  /\ references' = << >>
  /\ result' = NoResult
  /\ flat' = << >>
  /\ UNCHANGED << aux, files >>

Next ==
  \/ /\ pc = "idle"
     /\ \E fid \in FileIds :
          \E offset \in Offsets(files[fid]) :
            \E scope \in Scopes : Resolve(fid, offset, scope)
  \/ FindName
  \/ FindUsages
  \/ Declare
  \/ IntoIter
  \/ Finish

Spec == Init /\ [][Next]_vars

(***************************************************************************)
(* Cancellation: the snapshot is invalidated while the search call runs.   *)
(***************************************************************************)
\* The search returning what it had found when cancellation was signalled.
search_cancelled_partial(found) == [tag |-> "Ok", references |-> found]

\* Definition::find_usages when cancellation is signalled during the call:
\* the database query unwinds and what was found so far is lost.
search_cancelled(found) == [tag |-> "Unwind", references |-> << >>]

\* find_all_refs, lines 110-114, with cancellation signalled after the
\* search had found the first k usages: find_all_refs has no handler, the
\* unwinding leaves it without a return value.
CancelledSearch ==
  /\ pc = "find_usages"
  /\ ~cancelled
  /\ cancelled' = TRUE
  /\ calls' = Append(calls, "find_usages")
  /\ LET all == find_usages(def, usage_scope(search_scope))
     IN  \E k \in 0..Len(all) :
           LET out == search_cancelled(SubSeq(all, 1, k))
           IN  /\ usages' = SubSeq(all, 1, k)
               /\ IF out.tag = "Unwind"
                  THEN /\ pc' = "cancelled"
                       /\ UNCHANGED references
                  ELSE /\ pc' = "declaration"
                       /\ references' = filter(search_kind, out.references)
  /\ UNCHANGED << files, position, search_scope, lit_name, opt_name,
                  search_kind, range, def, result, flat, other,
                  expected, actual, matched, er_vars >>

NextCancel ==
  \/ Next
  \/ CancelledSearch

SpecCancel == Init /\ [][NextCancel]_vars

(***************************************************************************)
(* Two callers, each running one query against the same snapshot, their    *)
(* steps interleaved.                                                      *)
(***************************************************************************)
\* The first caller's query.
mine ==
  << pc, position, search_scope, lit_name, opt_name, search_kind, range, def,
     usages, references, result, flat, calls >>

\* The snapshot the two callers share.
SnapshotSeq == << RecordStruct, LetUse, MutUse, FieldUse, Closure, MacroDef >>

ParFiles == [g \in FileIds |-> SnapshotSeq[g]]

\* The second caller searches the whole snapshot.
OtherScopes == { NoScope }

InitPar ==
  /\ files = ParFiles
  /\ pc = "idle"
  /\ position = [file_id |-> 1, offset |-> 0]
  /\ search_scope = NoScope
  /\ calls = << >>
  /\ Idle
  /\ other = OtherIdle
  /\ cancelled = FALSE
  /\ expected = << >>
  /\ actual = << >>
  /\ matched = "unset"
  /\ ErIdle

\* find_all_refs, lines 93-106, second caller.
OtherResolve(fid, offset, scope) ==
  /\ other.pc = "idle"
  /\ LET name == get_struct_def_name_for_struct_literal_search(files[fid], offset)
     IN  other' = [other EXCEPT
                     !.pc = "find_name",
                     !.position = [file_id |-> fid, offset |-> offset],
                     !.search_scope = scope,
                     !.opt_name = resolve_name(files[fid], offset, name),
                     !.search_kind = resolve_kind(name)]
  /\ UNCHANGED << files, mine, cancelled, expected, actual, matched, er_vars >>

\* find_all_refs, line 108, second caller.
OtherFindName ==
  /\ other.pc = "find_name"
  /\ LET r == find_name(other.position, other.opt_name)
     IN  other' = IF r.some
                  THEN [other EXCEPT !.pc = "find_usages",
                                     !.range = r.range,
                                     !.def = r.info]
                  ELSE [other EXCEPT !.pc = "returned"]
  /\ UNCHANGED << files, mine, cancelled, expected, actual, matched, er_vars >>

\* find_all_refs, lines 110-114, second caller.
OtherFindUsages ==
  /\ other.pc = "find_usages"
  /\ other' = [other EXCEPT
                 !.pc = "declaration",
                 !.references =
                    filter(other.search_kind,
                           find_usages(other.def, usage_scope(other.search_scope)))]
  /\ UNCHANGED << files, mine, cancelled, expected, actual, matched, er_vars >>

\* find_all_refs, lines 116-124, second caller.
OtherDeclare ==
  /\ other.pc = "declaration"
  /\ LET nav == try_to_nav(other.def)
     IN  IF nav = NoNav
         THEN other' = [other EXCEPT !.pc = "returned"]
         ELSE LET access == decl_access(other.def, files[other.position.file_id],
                                        NavRange(nav))
              IN  IF access = "Panic"
                  THEN other' = [other EXCEPT !.pc = "panicked"]
                  ELSE other' = [other EXCEPT
                                   !.pc = "returned",
                                   !.result =
                                      search_result(other.range, nav,
                                                    declaration_kind(other.search_kind),
                                                    access, other.references)]
  /\ UNCHANGED << files, mine, cancelled, expected, actual, matched, er_vars >>

NextPar ==
  \/ /\ pc = "idle"
     /\ \E fid \in FileIds :
          \E offset \in Offsets(files[fid]) :
            \E scope \in Scopes : Resolve(fid, offset, scope)
  \/ FindName
  \/ FindUsages
  \/ Declare
  \/ /\ other.pc = "idle"
     /\ \E fid \in FileIds :
          \E offset \in Offsets(files[fid]) :
            \E scope \in OtherScopes : OtherResolve(fid, offset, scope)
  \/ OtherFindName
  \/ OtherFindUsages
  \/ OtherDeclare

SpecPar == InitPar /\ [][NextPar]_vars


(***************************************************************************)
(* test_utils: lines_match.  Strings are sequences of characters.          *)
(***************************************************************************)
MaxPieces == 3

MaxActual == 3

Wildcard == << "[", ".", ".", "]" >>

\* Whether `part` occurs in s at (0-based) index j.
OccursAt(s, part, j) ==
  /\ j + Len(part) <= Len(s)
  /\ SubSeq(s, j + 1, j + Len(part)) = part

\* str::find: the index of the first occurrence of `part` in s, -1 for None.
find(s, part) ==
  LET js == { j \in 0..Len(s) : OccursAt(s, part, j) }
  IN  IF js = {} THEN -1 ELSE SetMin(js)

\* str::replace: every non-overlapping occurrence, left to right.
RECURSIVE replace(_, _, _)
replace(s, from, to) ==
  IF s = << >> THEN << >>
  ELSE IF OccursAt(s, from, 0)
       THEN to \o replace(SubSeq(s, Len(from) + 1, Len(s)), from, to)
       ELSE << Head(s) >> \o replace(Tail(s), from, to)

\* str::split: the pieces of s between the occurrences of sep.
RECURSIVE split(_, _)
split(s, sep) ==
  LET j == find(s, sep)
  IN  IF j = -1 THEN << s >>
      ELSE << SubSeq(s, 1, j) >> \o split(SubSeq(s, j + Len(sep) + 1, Len(s)), sep)

\* str::ends_with
ends_with(s, suffix) ==
  /\ Len(suffix) <= Len(s)
  /\ SubSeq(s, Len(s) - Len(suffix) + 1, Len(s)) = suffix

\* lines_match, lines 459-460: backslashes to forward slashes.
normalise(s) == replace(replace(s, << "\\", "\\" >>, << "/" >>), << "\\" >>, << "/" >>)

\* lines_match, lines 461-471: the loop over the parts, from part i on, with
\* `rest` what is left of actual; "false" for the early returns, else what
\* is left of actual after the last part.
RECURSIVE match_parts(_, _, _)
match_parts(parts, i, rest) ==
  IF i > Len(parts) THEN [ok |-> TRUE, rest |-> rest]
  ELSE LET j == find(rest, parts[i])
       IN  IF j = -1 THEN [ok |-> FALSE, rest |-> rest]
           ELSE IF i = 1 /\ j # 0 THEN [ok |-> FALSE, rest |-> rest]
           ELSE match_parts(parts, i + 1,
                            SubSeq(rest, j + Len(parts[i]) + 1, Len(rest)))

\* lines_match
lines_match(e, a) ==
  LET exp == normalise(e)
      out == match_parts(split(exp, Wildcard), 1, normalise(a))
  IN  /\ out.ok
      /\ (out.rest = << >> \/ ends_with(exp, Wildcard))

\* The strings of the check: patterns of up to MaxPieces pieces, lines of up
\* to MaxActual characters.
RECURSIVE Concat(_)
Concat(ps) == IF ps = << >> THEN << >> ELSE Head(ps) \o Concat(Tail(ps))

Pieces == { << "a" >>, << "b" >>, << "/" >>, Wildcard }

Expecteds ==
  { Concat(ps) : ps \in UNION { [1..n -> Pieces] : n \in 0..MaxPieces } }

Actuals == UNION { [1..n -> { "a", "b", "\\" }] : n \in 0..MaxActual }

InitLines ==
  /\ files = ParFiles
  /\ pc = "idle"
  /\ position = [file_id |-> 1, offset |-> 0]
  /\ search_scope = NoScope
  /\ calls = << >>
  /\ Idle
  /\ other = OtherIdle
  /\ cancelled = FALSE
  /\ expected \in Expecteds
  /\ actual \in Actuals
  /\ matched = "unset"
  /\ ErIdle

\* A test calls lines_match(expected, actual).
LinesMatch ==
  /\ matched = "unset"
  /\ matched' = IF lines_match(expected, actual) THEN "true" ELSE "false"
  /\ UNCHANGED << files, mine, other, cancelled, expected, actual, er_vars >>

NextLines == LinesMatch

SpecLines == InitLines /\ [][NextLines]_vars

(***************************************************************************)
(* test_utils: extract_ranges, one step per half of a loop iteration.      *)
(***************************************************************************)
MaxTextPieces == 4

\* str::starts_with
starts_with(s, prefix) == OccursAt(s, prefix, 0)

\* format!("<{}>", tag)
open(tag) == << "<" >> \o tag \o << ">" >>

\* format!("</{}>", tag)
close(tag) == << "<", "/" >> \o tag \o << ">" >>

\* ranges.sort_by_key(|r| (r.start(), r.end()))
RangeBefore(r, q) == r.start < q.start \/ (r.start = q.start /\ r.end <= q.end)

RECURSIVE sort_ranges(_)
sort_ranges(rs) ==
  IF rs = << >> THEN << >>
  ELSE LET i == CHOOSE k \in DOMAIN rs :
                  /\ \A m \in DOMAIN rs : RangeBefore(rs[k], rs[m])
                  /\ \A m \in 1..(k - 1) : ~RangeBefore(rs[m], rs[k])
       IN  << rs[i] >> \o sort_ranges(SubSeq(rs, 1, i - 1) \o SubSeq(rs, i + 1, Len(rs)))

\* The texts and tags of the calls: texts of up to MaxTextPieces pieces.
Tags == { << "t" >>, << "b" >> }

TextPieces == { open(<< "t" >>), close(<< "t" >>), << "a" >>, << "<" >> }

Texts ==
  { Concat(ps) : ps \in UNION { [1..n -> TextPieces] : n \in 0..MaxTextPieces } }

InitRanges ==
  /\ files = ParFiles
  /\ pc = "idle"
  /\ position = [file_id |-> 1, offset |-> 0]
  /\ search_scope = NoScope
  /\ calls = << >>
  /\ Idle
  /\ other = OtherIdle
  /\ cancelled = FALSE
  /\ expected = << >>
  /\ actual = << >>
  /\ matched = "unset"
  /\ er_input \in Texts
  /\ er_tag \in Tags
  /\ er_text = er_input
  /\ er_res = << >>
  /\ er_stack = << >>
  /\ er_ranges = << >>
  /\ er_pc = "loop"

\* extract_ranges, lines 125-132 and 147-149: text.find('<'); without a `<`
\* the rest is pushed, the loop left, the stack checked, the ranges sorted.
ErFind ==
  /\ er_pc = "loop"
  /\ LET i == find(er_text, << "<" >>)
     IN  IF i = -1
         THEN /\ er_res' = er_res \o er_text
              /\ IF er_stack = << >>
                 THEN /\ er_ranges' = sort_ranges(er_ranges)
                      /\ er_pc' = "done"
                 ELSE /\ er_pc' = "panicked"
                      /\ UNCHANGED er_ranges
              /\ UNCHANGED er_text
         ELSE /\ er_res' = er_res \o SubSeq(er_text, 1, i)
              /\ er_text' = SubSeq(er_text, i + 1, Len(er_text))
              /\ er_pc' = "found"
              /\ UNCHANGED er_ranges
  /\ UNCHANGED << files, mine, other, cancelled, expected, actual, matched,
                  er_input, er_tag, er_stack >>

\* extract_ranges, lines 133-143: the text starts with `<`; an opening tag
\* is skipped and the offset pushed, a closing tag is skipped and a range
\* made, and anything else is left as it is.
ErTag ==
  /\ er_pc = "found"
  /\ IF starts_with(er_text, open(er_tag))
     THEN /\ er_text' = SubSeq(er_text, Len(open(er_tag)) + 1, Len(er_text))
          /\ er_stack' = Append(er_stack, Len(er_res))
          /\ er_pc' = "loop"
          /\ UNCHANGED er_ranges
     ELSE IF starts_with(er_text, close(er_tag))
     THEN /\ er_text' = SubSeq(er_text, Len(close(er_tag)) + 1, Len(er_text))
          /\ IF er_stack = << >>
             THEN /\ er_pc' = "panicked"
                  /\ UNCHANGED << er_stack, er_ranges >>
             ELSE /\ er_stack' = SubSeq(er_stack, 1, Len(er_stack) - 1)
                  /\ er_ranges' = Append(er_ranges,
                                         Range(er_stack[Len(er_stack)], Len(er_res)))
                  /\ er_pc' = "loop"
     ELSE /\ er_pc' = "loop"
          /\ UNCHANGED << er_text, er_stack, er_ranges >>
  /\ UNCHANGED << files, mine, other, cancelled, expected, actual, matched,
                  er_input, er_tag, er_res >>

NextRanges ==
  \/ ErFind
  \/ ErTag

\* The call keeps running until it returns or panics.
SpecRanges == InitRanges /\ [][NextRanges]_vars /\ WF_vars(NextRanges)

(***************************************************************************)
(* Properties.                                                             *)
(***************************************************************************)
CursorFile == files[position.file_id]

\* The query got past the usage search.
Searched ==
  /\ pc \in { "declaration", "returned", "flattened", "panicked" }
  /\ def # NoDef

\* The query is over.
Done == pc \in { "returned", "flattened", "panicked" }

Elems(sq) == { sq[i] : i \in DOMAIN sq }

\* The usages the requested kind admits, by their place in the engine's answer.
Admitted ==
  { i \in DOMAIN usages : search_kind = "Other" \/ usages[i].kind = search_kind }

\* The nodes of kind k of file f whose range holds offset o.
NodesAt(f, o, k) ==
  { n \in DOMAIN Nodes(f) :
      /\ Nodes(f)[n].kind = k
      /\ NodeRange(f, n).start <= o
      /\ o <= NodeRange(f, n).end }

\* The struct definitions of f whose field list opens at offset o, directly
\* (or one whitespace) after the struct's name or generic parameter list.
StructLiteralSites(f, o) ==
  { sd \in DOMAIN Nodes(f) :
      /\ Nodes(f)[sd].kind = "STRUCT_DEF"
      /\ \E r \in DOMAIN Toks(f) :
           /\ r > 1
           /\ TokStart(f, r) = o
           /\ Toks(f)[r].kind \in { "L_CURLY", "L_PAREN" }
           /\ \E fl \in DOMAIN Nodes(f) :
                Parent(f, fl) = sd /\ Nodes(f)[fl].from = r
           /\ LET l == IF Toks(f)[r - 1].kind = "WHITESPACE" THEN r - 2 ELSE r - 1
              IN  \E c \in DOMAIN Nodes(f) :
                    /\ Parent(f, c) = sd
                    /\ Nodes(f)[c].kind \in { "NAME", "TYPE_PARAM_LIST" }
                    /\ Nodes(f)[c].to = l }

\* The struct definitions of f whose name ends at offset o and is followed
\* by whitespace and then `{`.
NameBeforeSpaceSites(f, o) ==
  { sd \in DOMAIN Nodes(f) :
      /\ Nodes(f)[sd].kind = "STRUCT_DEF"
      /\ \E nm \in DOMAIN Nodes(f) :
           /\ Parent(f, nm) = sd
           /\ Nodes(f)[nm].kind = "NAME"
           /\ NodeRange(f, nm).end = o
           /\ Nodes(f)[nm].to + 2 <= Len(Toks(f))
           /\ Toks(f)[Nodes(f)[nm].to + 1].kind = "WHITESPACE"
           /\ Toks(f)[Nodes(f)[nm].to + 2].kind = "L_CURLY" }

\* The smallest let statement of f whose range holds offset o, 0 if none.
SmallestLetAt(f, o) ==
  LET ls == NodesAt(f, o, "LET_STMT")
  IN  IF ls = {} THEN 0
      ELSE CHOOSE n \in ls :
             \A m \in ls : RangeLen(NodeRange(f, n)) <= RangeLen(NodeRange(f, m))

\* Let statement n of f has an initializer and a `mut` bind pattern.
MutableInitialized(f, n) ==
  /\ n # 0
  /\ ChildIn(f, n, ExprKinds) # 0
  /\ \E pat \in DOMAIN Nodes(f) :
       /\ pat = ChildIn(f, n, PatKinds)
       /\ Nodes(f)[pat].kind = "BIND_PAT"
       /\ HasToken(f, pat, "MUT_KW")

\* C1: for every result find_all_refs returns, len() is the number of
\* references plus one (the declaration), hence at least 1, whatever the
\* search engine returned.
C1_LenCountsDeclaration ==
  result.some =>
    /\ len(result.info) = Len(result.info.references) + 1
    /\ len(result.info) >= 1
    /\ result.info.references = references

C1_Witness ==
  /\ pc = "returned"
  /\ result.some
  /\ Len(result.info.references) >= 2

\* C2: into_iter yields len() elements: first the declaration as a Reference
\* (file and range of its navigation target, its kind and access), then the
\* references, each at its place, none dropped, reordered or deduplicated.
C2_FlattenDeclarationFirst ==
  pc = "flattened" =>
    /\ Len(flat) = Len(result.info.references) + 1
    /\ flat[1].file_range.file_id = result.info.declaration.nav.file_id
    /\ flat[1].file_range.range = NavRange(result.info.declaration.nav)
    /\ flat[1].kind = result.info.declaration.kind
    /\ flat[1].access = result.info.declaration.access
    /\ \A i \in 2..Len(flat) : flat[i] = result.info.references[i - 1]

C2_Witness ==
  /\ pc = "flattened"
  /\ Len(flat) >= 3
  /\ flat[2] # flat[3]

\* C3: a usage the search engine returned is among the references iff the
\* requested kind is Other or is the usage's kind, and the kept usages keep
\* their relative order.
C3_FilterByKindInOrder ==
  Searched =>
    /\ Len(references) = Cardinality(Admitted)
    /\ \A i \in Admitted :
         references[Cardinality({ k \in Admitted : k <= i })] = usages[i]
    /\ result.some => result.info.references = references

C3_Witness ==
  /\ Searched
  /\ search_kind = "Other"
  /\ \E i, j \in DOMAIN references :
       i < j /\ references[i].kind # references[j].kind

\* C4 as stated: a usage of kind Other is kept by every query, and a usage
\* of kind StructLiteral only by queries that request StructLiteral.
C4_OtherKeptByAll ==
  Searched =>
    \A i \in DOMAIN usages :
      /\ usages[i].kind = "Other" => usages[i] \in Elems(references)
      /\ (usages[i].kind = "StructLiteral" /\ usages[i] \in Elems(references))
           => search_kind = "StructLiteral"

\* C4 as amended: a usage of kind StructLiteral is kept by every query, and
\* a usage of kind Other only by queries that request Other; a query that
\* requests Other keeps every usage.
C4_StructLiteralKeptByAll ==
  Searched =>
    \A i \in DOMAIN usages :
      /\ usages[i].kind = "StructLiteral" => usages[i] \in Elems(references)
      /\ (usages[i].kind = "Other" /\ usages[i] \in Elems(references))
           => search_kind = "Other"
      /\ search_kind = "Other" => usages[i] \in Elems(references)

C4_Witness ==
  /\ Searched
  /\ search_kind = "StructLiteral"
  /\ \E i, j \in DOMAIN usages :
       /\ usages[i].kind = "Other" /\ usages[i] \notin Elems(references)
       /\ usages[j].kind = "StructLiteral" /\ usages[j] \in Elems(references)

\* C5: with the cursor directly before the `{` or `(` that follows a
\* struct's name or generic parameter list, the query starts from the
\* struct's name with requested kind StructLiteral, and its result holds
\* every StructLiteral usage of the struct and no usage of kind Other.
C5_StructLiteralSiteScoped ==
  \A sd \in StructLiteralSites(CursorFile, position.offset) :
    pc # "idle" =>
      /\ search_kind = "StructLiteral"
      /\ opt_name = ChildOfKind(CursorFile, sd, "NAME")
      /\ Searched => def = [kind |-> "Struct", file |-> position.file_id,
                            node |-> ChildOfKind(CursorFile, sd, "NAME")]
      /\ result.some =>
           /\ \A i \in DOMAIN result.info.references :
                result.info.references[i].kind = "StructLiteral"
           /\ \A j \in DOMAIN usages :
                usages[j].kind = "StructLiteral"
                  => usages[j] \in Elems(result.info.references)

C5_Witness ==
  /\ StructLiteralSites(CursorFile, position.offset) # {}
  /\ result.some
  /\ Len(result.info.references) >= 1
  /\ \E j \in DOMAIN usages : usages[j].kind = "Other"

\* C6: the requested kind is StructLiteral exactly when the disambiguator
\* returned a name; the disambiguator is the first lookup, the lookups at
\* the cursor offset are made only when it returned nothing, and then the
\* requested kind is Other; a cursor right after a struct name that is
\* followed by whitespace and `{` gets Other and keeps every usage.
C6_DisambiguatorFirst ==
  pc # "idle" =>
    /\ lit_name = get_struct_def_name_for_struct_literal_search(CursorFile, position.offset)
    /\ (search_kind = "StructLiteral") <=> (lit_name # 0)
    /\ lit_name = 0 => search_kind = "Other"
    /\ calls[1] = "struct_literal_search"
    /\ ("find_name_at_cursor" \in Elems(calls)) <=> (lit_name = 0)
    /\ \A i \in DOMAIN calls :
         calls[i] \in { "find_name_at_cursor", "find_name_ref" }
           => (lit_name = 0 /\ i > 1)
    /\ \A sd \in NameBeforeSpaceSites(CursorFile, position.offset) :
         /\ search_kind = "Other"
         /\ Searched => references = usages

C6_Witness ==
  /\ NameBeforeSpaceSites(CursorFile, position.offset) # {}
  /\ result.some
  /\ \E i, j \in DOMAIN result.info.references :
       /\ result.info.references[i].kind = "Other"
       /\ result.info.references[j].kind = "StructLiteral"

\* C7: the declaration of every result has kind Other, also when the
\* requested kind is StructLiteral.
C7_DeclarationKindOther ==
  result.some => result.info.declaration.kind = "Other"

C7_Witness ==
  /\ result.some
  /\ search_kind = "StructLiteral"
  /\ Len(result.info.references) >= 1
  /\ \A i \in DOMAIN result.info.references :
       result.info.references[i].kind = "StructLiteral"

\* C8: the declaration's access, as decl_access computes it from the syntax
\* tree it is given, is Write iff the definition is a Local or a Field and
\* the smallest let statement holding the start of the declaration range
\* has an initializer and a `mut` bind pattern; otherwise there is no
\* access, and it is never Read.
C8_DeclAccessWriteIffMutLet ==
  result.some =>
    LET access == result.info.declaration.access
        start == NavRange(result.info.declaration.nav).start
    IN  /\ access \in { "Write", "None" }
        /\ (access = "Write") <=>
             /\ def.kind \in { "Local", "Field" }
             /\ MutableInitialized(CursorFile, SmallestLetAt(CursorFile, start))

C8_Witness ==
  /\ result.some
  /\ def.kind = "Local"
  /\ result.info.declaration.access = "Write"
  /\ result.info.declaration.nav.file_id = position.file_id

\* C9 as stated: the query returns None when there is no binder or usage at
\* the cursor, when the node found cannot be classified, and when the
\* definition has no navigation target; in every other case it returns a
\* result with a declaration.
C9_NoneExactlyInThreeCases ==
  Done =>
    LET f == CursorFile
        o == position.offset
        no_node == /\ lit_name = 0
                   /\ NodesAt(f, o, "NAME") = {}
                   /\ NodesAt(f, o, "NAME_REF") = {}
        unclassified ==
          /\ ~no_node
          /\ IF opt_name # 0
             THEN NameKind(f, opt_name) = "None"
             ELSE \A n \in NodesAt(f, o, "NAME_REF") :
                    /\ NodeSym(f, n) \notin Builtins
                    /\ Declarations(NodeSym(f, n)) = {}
        no_target == def # NoDef /\ def.file = 0
    IN  IF no_node \/ unclassified \/ no_target
        THEN pc = "returned" /\ result = NoResult
        ELSE /\ pc # "panicked"
             /\ result.some
             /\ result.info.declaration.nav # NoNav

\* C10: with a single-file scope every reference lies in that file, while
\* the declaration is returned whatever its file; with no scope the result
\* holds the admitted usages of every file.
C10_ScopeRestrictsReferences ==
  result.some =>
    /\ search_scope.some =>
         \A i \in DOMAIN result.info.references :
           result.info.references[i].file_range.file_id \in search_scope.files
    /\ result.info.declaration.nav.file_id = def.file
    /\ ~search_scope.some =>
         \A g \in FileIds :
           \A n \in DOMAIN Nodes(files[g]) :
             ( /\ Nodes(files[g])[n].kind = "NAME_REF"
               /\ classify_name_ref(g, n) = def
               /\ search_kind \in { "Other", UsageKind(files[g], n) } )
               => \E i \in DOMAIN result.info.references :
                    /\ result.info.references[i].file_range.file_id = g
                    /\ result.info.references[i].file_range.range
                         = NodeRange(files[g], n)

C10_Witness ==
  /\ result.some
  /\ search_scope.some
  /\ result.info.declaration.nav.file_id \notin search_scope.files
  /\ Len(result.info.references) >= 1

\* C11: the range returned with the result is the range of the name node the
\* query started from: the struct's declared name when the disambiguator
\* matched, else the binder at the cursor, else the usage at the cursor; it
\* is not the declaration's range.
C11_RangeOfStartingName ==
  result.some =>
    LET f == CursorFile
        o == position.offset
    IN  IF lit_name # 0
        THEN /\ Nodes(f)[lit_name].kind = "NAME"
             /\ Nodes(f)[Parent(f, lit_name)].kind = "STRUCT_DEF"
             /\ result.range = NodeRange(f, lit_name)
        ELSE IF NodesAt(f, o, "NAME") # {}
        THEN result.range \in { NodeRange(f, n) : n \in NodesAt(f, o, "NAME") }
        ELSE result.range \in { NodeRange(f, n) : n \in NodesAt(f, o, "NAME_REF") }

C11_Witness ==
  /\ result.some
  /\ lit_name = 0
  /\ NodesAt(CursorFile, position.offset, "NAME") = {}
  /\ result.info.declaration.nav.file_id = position.file_id
  /\ result.range # NavRange(result.info.declaration.nav)

\* How a query ended.
Ended(at) == at \in { "returned", "panicked" }

C13_InterleavedAsAlone ==
  /\ files = ParFiles
  /\ Ended(pc) =>
       [pc |-> pc, result |-> result] = find_all_refs(position, search_scope)
  /\ Ended(other.pc) =>
       [pc |-> other.pc, result |-> other.result]
         = find_all_refs(other.position, other.search_scope)

C13_Witness ==
  /\ pc = "returned"
  /\ result.some
  /\ search_scope.some
  /\ other.pc = "returned"
  /\ other.result.some
  /\ other.position.file_id # position.file_id
  /\ other.result.info.references # result.info.references

\* C14: when cancellation is signalled during the search call the query
\* fails as a whole; a result that is returned holds the references of a
\* search that ran to its end, never the part found before a cancellation.
C14_NoPartialResult ==
  /\ cancelled =>
       /\ pc = "cancelled"
       /\ result = NoResult
       /\ references = << >>
  /\ result.some =>
       result.info.references
         = filter(search_kind, find_usages(def, search_scope))

C14_Witness ==
  /\ cancelled
  /\ pc = "cancelled"
  /\ Len(usages) >= 1
  /\ Len(usages) < Len(find_usages(def, search_scope))

\* Whether line a matches pattern p, in which every `[..]` stands for any
\* characters, none included, and all other text stands for itself.
RECURSIVE WildMatch(_, _)
WildMatch(p, a) ==
  IF p = << >> THEN a = << >>
  ELSE IF OccursAt(p, Wildcard, 0)
       THEN \E k \in 0..Len(a) :
              WildMatch(SubSeq(p, 5, Len(p)), SubSeq(a, k + 1, Len(a)))
       ELSE /\ a # << >>
            /\ Head(p) = Head(a)
            /\ WildMatch(Tail(p), Tail(a))

\* C15 as stated: lines_match(expected, actual) is true exactly when the
\* normalised actual matches the normalised expected from the first to the
\* last character, `[..]` standing for any characters; without `[..]` this
\* is equality of the normalised strings.
C15_LinesMatchIsWildcardMatch ==
  matched # "unset" =>
    /\ (matched = "true") <=> WildMatch(normalise(expected), normalise(actual))
    /\ find(expected, Wildcard) = -1 =>
         ((matched = "true") <=> normalise(expected) = normalise(actual))

\* The binder nodes the query can start from: the name the disambiguator
\* returned, else the NAME nodes at the cursor.
Binders ==
  IF lit_name # 0 THEN { lit_name }
  ELSE NodesAt(CursorFile, position.offset, "NAME")

\* C16: when a binder node is found and does not classify, find_all_refs
\* returns no result without looking for a usage node; the usage lookup is
\* made only when no binder node was found.
C16_NoFallbackAfterBinder ==
  pc \notin { "idle", "find_name" } =>
    /\ Binders # {} =>
         /\ "find_name_ref" \notin Elems(calls)
         /\ "classify_name_ref" \notin Elems(calls)
         /\ "classify_name" \in Elems(calls)
    /\ (Binders # {} /\ \A n \in Binders : NameKind(CursorFile, n) = "None") =>
         /\ pc = "returned"
         /\ result = NoResult
         /\ def = NoDef
         /\ "find_usages" \notin Elems(calls)
    /\ "find_name_ref" \in Elems(calls) => Binders = {}

C16_Witness ==
  /\ pc = "returned"
  /\ Binders # {}
  /\ \A n \in Binders : NameKind(CursorFile, n) = "None"
  /\ result = NoResult
  /\ calls = << "struct_literal_search", "find_name_at_cursor", "classify_name" >>

\* C17 as stated: the declaration's access is decided in the file that holds
\* the declaration: it is Write iff the definition is a Local or a Field and
\* the smallest let statement of the declaring file that holds the start of
\* the declaration range has an initializer and a `mut` bind pattern,
\* whatever the cursor's file holds at that offset.
C17_AccessFromDeclaringFile ==
  (Searched /\ Done /\ try_to_nav(def) # NoNav) =>
    LET nav == try_to_nav(def)
        declaring == files[nav.file_id]
        start == NavRange(nav).start
    IN  /\ pc # "panicked"
        /\ result.some
        /\ (result.info.declaration.access = "Write") <=>
             /\ def.kind \in { "Local", "Field" }
             /\ MutableInitialized(declaring, SmallestLetAt(declaring, start))

\* C18 as stated: the declaration gets Write only when the definition is
\* itself the variable a let statement binds; a Local or Field that is only
\* declared somewhere inside the initializer of a `let mut` does not.
C18_WriteOnlyForLetBoundVariable ==
  (result.some /\ result.info.declaration.access = "Write") =>
    LET f == files[def.file]
        pat == Parent(f, def.node)
    IN  /\ def.kind = "Local"
        /\ pat # 0
        /\ Nodes(f)[pat].kind = "BIND_PAT"
        /\ Parent(f, pat) # 0
        /\ Nodes(f)[Parent(f, pat)].kind = "LET_STMT"
        /\ ChildIn(f, Parent(f, pat), PatKinds) = pat

\* Where in the query's calls collaborator c was called.
CallsOf(c) == { i \in DOMAIN calls : calls[i] = c }

\* C19: within one query the search engine is invoked at most once, after
\* the cursor was resolved and classified to a Definition and before the
\* navigation target is resolved; it is not invoked when resolution or
\* classification fails, and a failed step is the query's last step.
C19_SearchOnceAfterClassification ==
  /\ Cardinality(CallsOf("find_usages")) <= 1
  /\ \A i \in CallsOf("find_usages") :
       /\ def # NoDef
       /\ calls[i - 1] \in { "classify_name", "classify_name_ref" }
       /\ \A j \in CallsOf("try_to_nav") \cup CallsOf("decl_access") : j > i
  /\ CallsOf("try_to_nav") # {} => CallsOf("find_usages") # {}
  /\ (Done /\ def = NoDef) =>
       /\ CallsOf("find_usages") = {}
       /\ CallsOf("try_to_nav") = {}
       /\ calls[Len(calls)] \in { "find_name_ref", "classify_name", "classify_name_ref" }
  /\ (Done /\ def # NoDef /\ try_to_nav(def) = NoNav) =>
       /\ Cardinality(CallsOf("try_to_nav")) = 1
       /\ calls[Len(calls)] = "try_to_nav"
       /\ result = NoResult
  /\ \A c \in { "struct_literal_search", "find_name_at_cursor", "find_name_ref",
               "classify_name", "classify_name_ref", "decl_access" } :
       Cardinality(CallsOf(c)) <= 1

C19_Witness ==
  /\ pc = "returned"
  /\ result.some
  /\ calls = << "struct_literal_search", "find_name_at_cursor", "find_name_ref",
               "classify_name_ref", "find_usages", "try_to_nav", "try_to_nav",
               "decl_access" >>

\* C20 as stated: when the filter leaves none of the usages the search
\* returned (or the search found none), a query whose definition has a
\* navigation target still succeeds: it returns a result with the
\* declaration, no references and len() = 1.
C20_EmptyResultSucceeds ==
  (Done /\ def # NoDef /\ try_to_nav(def) # NoNav /\ Admitted = {}) =>
    /\ pc # "panicked"
    /\ result.some
    /\ result.info.declaration.nav = try_to_nav(def)
    /\ result.info.references = << >>
    /\ len(result.info) = 1

\* C21 as stated: extract_ranges comes to an end on every text and tag, also
\* when the text holds a `<` that starts neither tag, and the text it
\* returns is the input without the tags.
C21_ExtractRangesTerminates ==
  /\ <>(er_pc \in { "done", "panicked" })
  /\ [](er_pc = "done" =>
          er_res = replace(replace(er_input, close(er_tag), << >>),
                           open(er_tag), << >>))

=============================================================================
